---- MODULE Spec2Model ----
(***************************************************************************)
(* Billing and analytics subsystem of the Dropstore POS backend            *)
(* (src/index.js, src/models/Bill.js, CounterSchema in                     *)
(* src/models/Product.js).                                                 *)
(*                                                                         *)
(* State: the counters collection, the bills collection, the position of    *)
(* every POST /api/bills handler, the wall clock (in whole days) and the    *)
(* GET /api/analytics responses a client has received since the last write. *)
(*                                                                         *)
(* Strings the code builds (`INV-${seq}`, "%d/%m") are sequences of         *)
(* one-character strings, compared the way MongoDB compares strings under   *)
(* the simple collation (by code point).                                    *)
(*                                                                         *)
(* Time is counted in whole days.  $dateToString formats in UTC and         *)
(* setHours(0, 0, 0, 0) cuts at the server's local midnight; the server's   *)
(* zone is taken to be UTC, so both cut the same days.                      *)
(***************************************************************************)
EXTENDS Integers, Sequences, FiniteSets

VARIABLES
    counters,   \* counters collection in natural order; each document's seq
    bills,      \* bills collection in insertion order
    pc,         \* per request: position in the POST /api/bills handler
    body,       \* per request: req.body
    seq,        \* per request: counter.seq returned to the handler (0: none yet)
    floor,      \* per request: largest value already returned when it began
    resp,       \* per request: the HTTP response sent
    today,      \* wall clock, days since 1 January of BaseYear
    ticks,      \* number of clock advances so far
    analytics   \* GET /api/analytics responses since the last write or tick

vars == <<counters, bills, pc, body, seq, floor, resp, today, ticks, analytics>>

----------------------------------------------------------------------------
(* Bounds *)

MaxRequests == 4
MaxSerial == 3
MaxTicks == 1
StartDay == 303
BaseYear == 2025

Requests == 1..MaxRequests

(* Program constants *)

CounterDefault == 1000
WindowDays == 7
TopN == 5

----------------------------------------------------------------------------
(* Request bodies *)

Item(n, q) == [name |-> n, qty |-> q]

CashBill ==
    [total |-> 100, paymentMode |-> "cash", items |-> <<Item("A", 2)>>]

UpiBill ==
    [total |-> 50, paymentMode |-> "upi",
     items |-> <<Item("C", 6), Item("D", 5), Item("E", 4), Item("F", 3)>>]

NegativeBill ==
    [total |-> -5, paymentMode |-> "cash", items |-> <<Item("B", 2)>>]

NoModeBill == [total |-> 50, items |-> <<>>]

NoTotalBill == [paymentMode |-> "card", items |-> <<Item("B", 1)>>]

Bodies == {CashBill, UpiBill, NegativeBill, NoModeBill, NoTotalBill}

(* The bodies concurrent runs draw from. *)
BillingBodies == {CashBill, NegativeBill, NoModeBill}

NoBody == [items |-> <<>>]

TickDays == {1, WindowDays, WindowDays + 1}

----------------------------------------------------------------------------
(* Strings *)

DigitChars == <<"0", "1", "2", "3", "4", "5", "6", "7", "8", "9">>

RECURSIVE NumberToString(_)
NumberToString(n) ==
    IF n < 10 THEN <<DigitChars[n + 1]>>
    ELSE NumberToString(n \div 10) \o <<DigitChars[(n % 10) + 1]>>

CharCode(c) ==
    IF c = "/" THEN 47
    ELSE IF c = "-" THEN 45
    ELSE 47 + (CHOOSE i \in 1..10 : DigitChars[i] = c)

RECURSIVE StrLess(_, _)
StrLess(a, b) ==
    IF b = <<>> THEN FALSE
    ELSE IF a = <<>> THEN TRUE
    ELSE IF CharCode(Head(a)) < CharCode(Head(b)) THEN TRUE
    ELSE IF CharCode(Head(a)) > CharCode(Head(b)) THEN FALSE
    ELSE StrLess(Tail(a), Tail(b))

InvoiceNumber(n) == <<"I", "N", "V", "-">> \o NumberToString(n)

----------------------------------------------------------------------------
(* Calendar *)

IsLeap(y) == (y % 4 = 0 /\ y % 100 # 0) \/ y % 400 = 0

DaysInMonth(m, y) ==
    IF m = 2 THEN (IF IsLeap(y) THEN 29 ELSE 28)
    ELSE IF m \in {4, 6, 9, 11} THEN 30
    ELSE 31

RECURSIVE CalendarDate(_, _, _)
CalendarDate(n, y, m) ==
    IF n < DaysInMonth(m, y) THEN [year |-> y, month |-> m, day |-> n + 1]
    ELSE IF m = 12 THEN CalendarDate(n - DaysInMonth(m, y), y + 1, 1)
    ELSE CalendarDate(n - DaysInMonth(m, y), y, m + 1)

Pad2(n) == <<DigitChars[(n \div 10) + 1], DigitChars[(n % 10) + 1]>>

DateToString(d) ==
    LET c == CalendarDate(d, BaseYear, 1)
    IN  Pad2(c.day) \o <<"/">> \o Pad2(c.month)

----------------------------------------------------------------------------
Init ==
    /\ counters = <<>>
    /\ bills = <<>>
    /\ pc = [r \in Requests |-> "idle"]
    /\ body = [r \in Requests |-> NoBody]
    /\ seq = [r \in Requests |-> 0]
    /\ floor = [r \in Requests |-> 0]
    /\ resp = [r \in Requests |-> [status |-> 0, billNumber |-> <<>>]]
    /\ today = StartDay
    /\ ticks = 0
    /\ analytics = <<>>

----------------------------------------------------------------------------
(* POST /api/bills                                                         *)

(* The values already returned to handlers: pc "save" and "done" are past   *)
(* the await of findOneAndUpdate.                                           *)
Returned == {seq[q] : q \in {q \in Requests : seq[q] > 0}}

MaxOf(S) == IF S = {} THEN 0 ELSE CHOOSE x \in S : \A y \in S : y <= x

(* Requests are numbered in order of arrival. *)
NextArrival(r) == pc[r] = "idle" /\ \A q \in 1..(r - 1) : pc[q] # "idle"

(* The handler reads req.body and calls Counter.findOneAndUpdate; the       *)
(* operation is then in flight.                                             *)
BeginCreateBill(r, b) ==
    /\ NextArrival(r)
    /\ pc' = [pc EXCEPT ![r] = "counter"]
    /\ body' = [body EXCEPT ![r] = b]
    /\ floor' = [floor EXCEPT ![r] = MaxOf(Returned)]
    /\ UNCHANGED <<counters, bills, seq, resp, today, ticks, analytics>>

(* { $inc: { seq: 1 } } on the value a document holds. *)
IncSeq(v) == v + 1

(* The value of seq in a document the upsert inserts: $inc on an absent     *)
(* field sets it to the increment.  The schema default (CounterDefault) is  *)
(* not applied to a path the update itself modifies.                        *)
UpsertedSeq == IncSeq(0)

(* findOneAndUpdate matches a document: the first in natural order is       *)
(* incremented and returned ({ new: true }) in one atomic step.             *)
CounterFindAndModify(r) ==
    /\ pc[r] = "counter"
    /\ counters # <<>>
    /\ counters' = [counters EXCEPT ![1] = IncSeq(@)]
    /\ seq' = [seq EXCEPT ![r] = IncSeq(counters[1])]
    /\ pc' = [pc EXCEPT ![r] = "save"]
    /\ UNCHANGED <<bills, body, floor, resp, today, ticks, analytics>>

(* findOneAndUpdate matches nothing: with { upsert: true } the operation    *)
(* goes on to insert.  CounterSchema declares no unique index on id, so     *)
(* nothing orders this against another operation that also matched nothing. *)
CounterNoMatch(r) ==
    /\ pc[r] = "counter"
    /\ counters = <<>>
    /\ pc' = [pc EXCEPT ![r] = "upsert"]
    /\ UNCHANGED <<counters, bills, body, seq, floor, resp, today, ticks, analytics>>

(* The sequence s with x put in at position k. *)
InsertAt(s, k, x) == SubSeq(s, 1, k - 1) \o <<x>> \o SubSeq(s, k, Len(s))

(* The upsert inserts { id: "bill_seq", seq: UpsertedSeq } and returns it.  *)
(* Only operations that matched nothing insert, and the place of a new      *)
(* document in natural order is fixed when the insert starts, not when it   *)
(* becomes visible: it may lie before or after the documents the other      *)
(* racing upserts have inserted.                                            *)
CounterInsert(r) ==
    /\ pc[r] = "upsert"
    /\ \E k \in 1..(Len(counters) + 1) :
         counters' = InsertAt(counters, k, UpsertedSeq)
    /\ seq' = [seq EXCEPT ![r] = UpsertedSeq]
    /\ pc' = [pc EXCEPT ![r] = "save"]
    /\ UNCHANGED <<bills, body, floor, resp, today, ticks, analytics>>

ErrorResponse == [status |-> 500, billNumber |-> <<>>]

(* findOneAndUpdate rejects (store unreachable): the catch block answers.   *)
CounterFail(r) ==
    /\ pc[r] \in {"counter", "upsert"}
    /\ pc' = [pc EXCEPT ![r] = "done"]
    /\ resp' = [resp EXCEPT ![r] = ErrorResponse]
    /\ body' = [body EXCEPT ![r] = NoBody]
    /\ UNCHANGED <<counters, bills, seq, floor, today, ticks, analytics>>

(* BillSchema: billNumber, total and paymentMode are required; a required   *)
(* String must not be empty.  No minimum is declared for total.             *)
Validate(b) ==
    /\ "total" \in DOMAIN b
    /\ "paymentMode" \in DOMAIN b
    /\ b.paymentMode # ""

NewBill(r) ==
    [billNumber |-> InvoiceNumber(seq[r]),
     customerPhone |-> "",
     items |-> body[r].items,
     total |-> body[r].total,
     paymentMode |-> body[r].paymentMode,
     createdAt |-> today]

(* new Bill({...}).save(): validation, then the insert; 201 with the        *)
(* billNumber, or the catch block's 500.                                    *)
SaveBill(r) ==
    /\ pc[r] = "save"
    /\ pc' = [pc EXCEPT ![r] = "done"]
    /\ IF Validate(body[r])
       THEN /\ bills' = Append(bills, NewBill(r))
            /\ resp' = [resp EXCEPT ![r] =
                          [status |-> 201, billNumber |-> NewBill(r).billNumber]]
            /\ analytics' = <<>>
       ELSE /\ resp' = [resp EXCEPT ![r] = ErrorResponse]
            /\ UNCHANGED <<bills, analytics>>
    /\ body' = [body EXCEPT ![r] = NoBody]
    /\ UNCHANGED <<counters, seq, floor, today, ticks>>

(* save() rejects because the store is unreachable. *)
SaveFail(r) ==
    /\ pc[r] = "save"
    /\ pc' = [pc EXCEPT ![r] = "done"]
    /\ resp' = [resp EXCEPT ![r] = ErrorResponse]
    /\ body' = [body EXCEPT ![r] = NoBody]
    /\ UNCHANGED <<counters, bills, seq, floor, today, ticks, analytics>>

----------------------------------------------------------------------------
(* GET /api/analytics                                                      *)

RECURSIVE SumSeq(_)
SumSeq(s) == IF s = <<>> THEN 0 ELSE Head(s) + SumSeq(Tail(s))

RECURSIVE Flatten(_)
Flatten(ss) == IF ss = <<>> THEN <<>> ELSE Head(ss) \o Flatten(Tail(ss))

Min(a, b) == IF a < b THEN a ELSE b

(* new Date(); setDate(getDate() - 7); setHours(0, 0, 0, 0) *)
SevenDaysAgo == today - WindowDays

(* { $match: { createdAt: { $gte: sevenDaysAgo } } } *)
InWindow(bill) == bill.createdAt >= SevenDaysAgo

Matched == SelectSeq(bills, InWindow)

(* $cond: [{ $eq: ["$paymentMode", "cash"] }, "$total", 0] *)
CashPart(bill) == IF bill.paymentMode = "cash" THEN bill.total ELSE 0

(* As OnlinePart, counting only the mode named "online". *)
OnlinePartNamed(bill) == IF bill.paymentMode = "online" THEN bill.total ELSE 0

(* $cond: [{ $ne: ["$paymentMode", "cash"] }, "$total", 0] *)
OnlinePart(bill) == IF bill.paymentMode # "cash" THEN bill.total ELSE 0

(* The totalStats facet: $group with _id null yields one document when any  *)
(* bill matched and none otherwise.                                         *)
TotalStats(docs) ==
    IF docs = <<>> THEN <<>>
    ELSE << [totalRevenue |-> SumSeq([i \in 1..Len(docs) |-> docs[i].total]),
             totalOrders |-> SumSeq([i \in 1..Len(docs) |-> 1]),
             cashSales |-> SumSeq([i \in 1..Len(docs) |-> CashPart(docs[i])]),
             onlineSales |-> SumSeq([i \in 1..Len(docs) |-> OnlinePart(docs[i])])] >>

(* result.totalStats[0] || { totalRevenue: 0, ... } *)
StatsOrDefault(ts) ==
    IF ts # <<>> THEN ts[1]
    ELSE [totalRevenue |-> 0, totalOrders |-> 0, cashSales |-> 0, onlineSales |-> 0]

(* $group by $dateToString "%d/%m" of createdAt, summing total. *)
DailyGroups(docs) ==
    { [_id |-> l,
       total |-> SumSeq([i \in 1..Len(docs) |->
                           IF DateToString(docs[i].createdAt) = l
                           THEN docs[i].total ELSE 0])] :
      l \in {DateToString(docs[i].createdAt) : i \in 1..Len(docs)} }

(* { $sort: { _id: 1 } }: ascending by the label string. *)
RECURSIVE SortById(_)
SortById(G) ==
    IF G = {} THEN <<>>
    ELSE LET m == CHOOSE x \in G : \A y \in G : ~StrLess(y._id, x._id)
         IN  <<m>> \o SortById(G \ {m})

DailySales(docs) == SortById(DailyGroups(docs))

(* { $unwind: "$items" }: one document per item, in bill and item order. *)
Unwind(docs) == Flatten([i \in 1..Len(docs) |-> docs[i].items])

(* $group by items.name, summing items.qty. *)
ProductGroups(items) ==
    { [_id |-> n,
       qty |-> SumSeq([i \in 1..Len(items) |->
                         IF items[i].name = n THEN items[i].qty ELSE 0])] :
      n \in {items[i].name : i \in 1..Len(items)} }

(* { $sort: { qty: -1 } }: every arrangement of the groups with qty         *)
(* non-increasing.  The order of groups with equal qty is not determined    *)
(* by the sort key, and the store may return any of them.                   *)
RECURSIVE SortByQtyDesc(_)
SortByQtyDesc(G) ==
    IF G = {} THEN {<<>>}
    ELSE UNION { {<<x>> \o rest : rest \in SortByQtyDesc(G \ {x})} :
                 x \in {x \in G : \A y \in G : y.qty <= x.qty} }

(* { $limit: 5 } *)
Limit(s) == SubSeq(s, 1, Min(TopN, Len(s)))

TopProductsFacet(docs) == {Limit(s) : s \in SortByQtyDesc(ProductGroups(Unwind(docs)))}

(* res.json({...}) *)
Response(stats, daily, top) ==
    [totalRevenue |-> stats.totalRevenue,
     totalOrders |-> stats.totalOrders,
     paymentStats |-> [cash |-> stats.cashSales, online |-> stats.onlineSales],
     chart |-> [labels |-> [i \in 1..Len(daily) |-> daily[i]._id],
                data |-> [i \in 1..Len(daily) |-> daily[i].total]],
     topProducts |-> [i \in 1..Len(top) |-> [name |-> top[i]._id, qty |-> top[i].qty]]]

(* The client's log keeps the last two responses received with no write     *)
(* and no change of day between them.                                       *)
Logged(r) == IF analytics = <<>> THEN <<r>> ELSE <<analytics[Len(analytics)], r>>

GetAnalytics ==
    /\ \E top \in TopProductsFacet(Matched) :
         analytics' = Logged(Response(StatsOrDefault(TotalStats(Matched)),
                                      DailySales(Matched), top))
    /\ UNCHANGED <<counters, bills, pc, body, seq, floor, resp, today, ticks>>

(* The clock moves on: by a day, to the last day of the window, or past it. *)
Tick(d) ==
    /\ ticks < MaxTicks
    /\ today' = today + d
    /\ ticks' = ticks + 1
    /\ analytics' = <<>>
    /\ UNCHANGED <<counters, bills, pc, body, seq, floor, resp>>

(* Concurrent bill creation: the handlers' steps interleave in any order.  *)
Next ==
    \/ \E r \in Requests, b \in BillingBodies : BeginCreateBill(r, b)
    \/ \E r \in Requests : CounterFindAndModify(r)
    \/ \E r \in Requests : CounterNoMatch(r)
    \/ \E r \in Requests : CounterInsert(r)
    \/ \E r \in Requests : CounterFail(r)
    \/ \E r \in Requests : SaveBill(r)
    \/ \E r \in Requests : SaveFail(r)

Spec == Init /\ [][Next]_vars

(* Analytics over the bills a run leaves behind.  SaveBill appends to the   *)
(* collection in one step and the aggregation reads neither billNumber nor  *)
(* the counter, so every collection a concurrent run produces is produced   *)
(* by a run that creates its bills one after the other; the clock moves and *)
(* analytics is requested between bill creations.  The store stays          *)
(* reachable; a request fails only by validation.                           *)
Quiet == \A r \in Requests : pc[r] \in {"idle", "done"}

SerialNext ==
    \/ \E r \in 1..MaxSerial, b \in Bodies : Quiet /\ BeginCreateBill(r, b)
    \/ \E r \in Requests : CounterFindAndModify(r)
    \/ \E r \in Requests : CounterNoMatch(r)
    \/ \E r \in Requests : CounterInsert(r)
    \/ \E r \in Requests : SaveBill(r)
    \/ Quiet /\ GetAnalytics
    \/ \E d \in TickDays : Quiet /\ Tick(d)

AnalyticsSpec == Init /\ [][SerialNext]_vars

----------------------------------------------------------------------------
(* Properties                                                              *)

Issued == {r \in Requests : seq[r] > 0}

RECURSIVE SumFn(_, _)
SumFn(f, S) ==
    IF S = {} THEN 0
    ELSE LET x == CHOOSE x \in S : TRUE IN f[x] + SumFn(f, S \ {x})

WindowIdx == {i \in 1..Len(bills) : bills[i].createdAt >= today - WindowDays}

(* C1: no two requests obtain the same counter value and no two stored      *)
(* bills carry the same billNumber, whatever the interleaving.              *)
C1_UniqueValues ==
    /\ \A r1, r2 \in Issued : r1 # r2 => seq[r1] # seq[r2]
    /\ \A i, j \in 1..Len(bills) :
         i # j => bills[i].billNumber # bills[j].billNumber

(* C2: a request whose increment begins after another's has completed       *)
(* obtains a strictly greater value, and no counter document's value ever   *)
(* decreases.                                                               *)
C2_Monotonic ==
    [][/\ \A r \in Requests : seq'[r] > 0 => seq'[r] > floor'[r]
       /\ Len(counters') >= Len(counters)
       /\ \A i \in 1..Len(counters) :
            \E j \in 1..Len(counters') : counters'[j] >= counters[i]]_vars

(* C3: from a store with no counter document every issued value is at       *)
(* least CounterDefault + 1, and the first bill stored is INV-1001.         *)
C3_StartsAt1001 ==
    /\ \A r \in Issued : seq[r] >= CounterDefault + 1
    /\ (Len(bills) >= 1 /\ Cardinality(Issued) = 1) =>
           bills[1].billNumber = InvoiceNumber(CounterDefault + 1)

(* C5: every stored bill has total >= 0 and a paymentMode.                  *)
C5_StoredBillsValid ==
    \A i \in 1..Len(bills) :
        bills[i].total >= 0 /\ bills[i].paymentMode # ""

(* C6: when a request obtained a counter value and then failed, no stored   *)
(* bill carries the invoice number of that value, its response has no       *)
(* billNumber, and no request that began after the value was returned       *)
(* obtains it again.                                                        *)
C6_FailedValueSkipped ==
    \A r \in Issued :
        (pc[r] = "done" /\ resp[r].status = 500) =>
            /\ \A i \in 1..Len(bills) : bills[i].billNumber # InvoiceNumber(seq[r])
            /\ resp[r].billNumber = <<>>
            /\ \A q \in Issued : (q # r /\ floor[q] >= seq[r]) => seq[q] # seq[r]

(* C4: chart.labels and chart.data of every analytics response have         *)
(* exactly WindowDays entries.                                              *)
C4_SevenEntries ==
    \A k \in 1..Len(analytics) :
        /\ Len(analytics[k].chart.labels) = WindowDays
        /\ Len(analytics[k].chart.data) = WindowDays

(* The index in the unwound items at which a product name first occurs. *)
FirstSeen(n) ==
    LET items == Unwind(Matched)
    IN  CHOOSE i \in 1..Len(items) :
            items[i].name = n /\ \A j \in 1..(i - 1) : items[j].name # n

SoldQty(n) ==
    LET items == Unwind(Matched)
    IN  SumFn([i \in 1..Len(items) |-> IF items[i].name = n THEN items[i].qty ELSE 0],
              1..Len(items))

SoldNames == {Unwind(Matched)[i].name : i \in 1..Len(Unwind(Matched))}

(* C7: topProducts lists the products by summed qty, descending, ties in    *)
(* first-encountered order, cut to the top TopN.                            *)
C7_TopProductsStable ==
    \A k \in 1..Len(analytics) :
        LET top == analytics[k].topProducts
        IN  /\ Len(top) = Min(TopN, Cardinality(SoldNames))
            /\ \A i \in 1..Len(top) :
                   top[i].name \in SoldNames /\ top[i].qty = SoldQty(top[i].name)
            /\ \A i, j \in 1..Len(top) :
                   i < j => \/ top[i].qty > top[j].qty
                            \/ /\ top[i].qty = top[j].qty
                               /\ FirstSeen(top[i].name) < FirstSeen(top[j].name)
            /\ \A n \in SoldNames \ {top[i].name : i \in 1..Len(top)} :
                   \A i \in 1..Len(top) : SoldQty(n) <= top[i].qty

(* C8: two analytics responses with no write and no change of window        *)
(* between them are identical.                                              *)
C8_IdempotentReads ==
    Len(analytics) = 2 => analytics[1] = analytics[2]

(* The days of the window on which a bill was created, oldest first. *)
RECURSIVE Ascending(_)
Ascending(S) ==
    IF S = {} THEN <<>>
    ELSE LET m == CHOOSE x \in S : \A y \in S : x <= y
         IN  <<m>> \o Ascending(S \ {m})

SaleDays == Ascending({bills[i].createdAt : i \in WindowIdx})

RevenueOfDay(d) ==
    SumFn([i \in 1..Len(bills) |-> bills[i].total],
          {i \in WindowIdx : bills[i].createdAt = d})

(* C9: chart.labels names the days with sales oldest first, and data[i] is  *)
(* the revenue of the day labels[i] names.                                  *)
C9_Chronological ==
    \A k \in 1..Len(analytics) :
        LET chart == analytics[k].chart
        IN  /\ Len(chart.labels) = Len(SaleDays)
            /\ Len(chart.data) = Len(SaleDays)
            /\ \A i \in 1..Len(SaleDays) :
                   /\ chart.labels[i] = DateToString(SaleDays[i])
                   /\ chart.data[i] = RevenueOfDay(SaleDays[i])

(* C10: paymentStats.cash is the revenue of the window's bills paid "cash", *)
(* paymentStats.online that of all its other bills; the two add up to        *)
(* totalRevenue, and totalOrders counts the window's bills.                  *)
C10_PaymentSplit ==
    \A k \in 1..Len(analytics) :
        LET a == analytics[k]
            total == [i \in 1..Len(bills) |-> bills[i].total]
        IN  /\ a.paymentStats.cash =
                   SumFn(total, {i \in WindowIdx : bills[i].paymentMode = "cash"})
            /\ a.paymentStats.online =
                   SumFn(total, {i \in WindowIdx : bills[i].paymentMode # "cash"})
            /\ a.paymentStats.cash + a.paymentStats.online = a.totalRevenue
            /\ a.totalOrders = Cardinality(WindowIdx)

C10_Witness ==
    /\ Len(analytics) >= 1
    /\ analytics[1].paymentStats.cash > 0
    /\ analytics[1].paymentStats.online > 0
    /\ analytics[1].totalOrders = 2
    /\ Len(bills) = 3

====
